---------------------------- MODULE Spec2Model ----------------------------
(***************************************************************************)
(* Lamport one-time signatures (lamport_sigs.rs, src/src/lib.rs).          *)
(*                                                                         *)
(* The model follows one generated PrivateKey and one clone of it through  *)
(* new, clone, public_key, sign, drop and the equality test, together with *)
(* the PublicKey operations verify_signature, to_bytes and from_vec.       *)
(*                                                                         *)
(* ring's digest algorithms are external to the crate.  They are modelled  *)
(* as deterministic functions from byte sequences to output_len bytes, and *)
(* the two statics of tests.rs (DIGEST_256, DIGEST_512) keep their roles   *)
(* with output lengths scaled down to Len256 and Len512 bytes, so that a   *)
(* key has 8 * output_len preimages of output_len bytes as in the code.    *)
(* The model digest has collisions, which a real digest has only in        *)
(* principle; statements that depend on collision freedom say so.          *)
(*                                                                         *)
(* A Rust panic is an outcome of a call ("panic"); the calls that can      *)
(* panic here take their arguments by shared reference or by value and     *)
(* leave no state behind.                                                  *)
(***************************************************************************)
EXTENDS Integers, Sequences, FiniteSets

(* ------------------------------ bounds -------------------------------- *)

\* output_len, in bytes, of the two digest algorithms of the model
Len256 == 1
Len512 == 2
\* OsRng outcomes considered at key generation: streams 0 .. MaxSeed
MaxSeed == 1
\* messages considered: Msg(1) .. Msg(NumMsgs)
NumMsgs == 2

(* --------------------------- program constants ------------------------ *)

\* values of a u8
ByteMod == 256
\* bits of a u8, the inner loop bound of sign and verify_signature
BitsPerByte == 8

(* ------------------------------ digests ------------------------------- *)

DIGEST_256 == [name |-> "SHA256", output_len |-> Len256]
DIGEST_512 == [name |-> "SHA512", output_len |-> Len512]

Algorithms == {DIGEST_256, DIGEST_512}

\* initial chaining value of an algorithm
InitialValue(algorithm) == IF algorithm.name = "SHA256" THEN 106 ELSE 187

RECURSIVE Absorb(_, _, _, _)
\* Context::update folded over data[i..], for output byte p
Absorb(data, i, h, p) ==
    IF i > Len(data) THEN h
    ELSE Absorb(data, i + 1, (33 * h + data[i] * data[i] + p) % ByteMod, p)

RECURSIVE Finish(_, _, _)
\* Context::finish: the output bytes p, p+1, .. output_len
Finish(algorithm, data, p) ==
    IF p > algorithm.output_len THEN <<>>
    ELSE <<Absorb(data, 1, (InitialValue(algorithm) + 17 * p) % ByteMod, p)>>
         \o Finish(algorithm, data, p + 1)

\* Context::new(algorithm); update(data); finish()
Digest(algorithm, data) == Finish(algorithm, data, 1)

\* (byte & (1 << j)) > 0
BitSet(byte, j) == (byte \div (2 ^ j)) % 2 = 1

(* ------------------------------ inputs -------------------------------- *)

\* b"Hello World"
HelloWorld == <<72, 101, 108, 108, 111, 32, 87, 111, 114, 108, 100>>

\* the messages signed and verified: prefixes of HelloWorld
Msg(n) == SubSeq(HelloWorld, 1, Len(HelloWorld) + 1 - n)

Messages == {Msg(n) : n \in 1..NumMsgs}

\* the n-th byte (from 0) that OsRng delivers in outcome seed; outcome 0 is
\* the all-zero stream
RngByte(seed, n) == (seed * (41 * n + 29 * n * n + 3)) % ByteMod

\* generate_bit_hash_values: 8 * output_len buffers of output_len random bytes,
\* drawn from position start of the stream
generate_bit_hash_values(algorithm, seed, start) ==
    [i \in 1..(algorithm.output_len * BitsPerByte) |->
        [j \in 1..algorithm.output_len |->
            RngByte(seed, start + (i - 1) * algorithm.output_len + (j - 1))]]

(* ---------------------------- PrivateKey ------------------------------ *)

\* PrivateKey::new
new(algorithm, seed) ==
    [zero_values |-> generate_bit_hash_values(algorithm, seed, 0),
     one_values  |-> generate_bit_hash_values(algorithm, seed,
                        algorithm.output_len * BitsPerByte * algorithm.output_len),
     algorithm   |-> algorithm,
     used        |-> FALSE]

RECURSIVE hash_values_loop_short(_, _, _, _)
\* hash_values_loop with the loop ending one index early
hash_values_loop_short(algorithm, x, buffer, i) ==
    IF i >= algorithm.output_len * BitsPerByte THEN buffer
    ELSE hash_values_loop_short(algorithm, x,
                                [buffer EXCEPT ![i] = Digest(algorithm, x[i])], i + 1)

RECURSIVE hash_values_loop(_, _, _, _)
\* the loop of hash_values: buffer[i] = digest of x[i], for i in 0 .. 8*output_len
hash_values_loop(algorithm, x, buffer, i) ==
    IF i > algorithm.output_len * BitsPerByte THEN buffer
    ELSE hash_values_loop(algorithm, x,
                          [buffer EXCEPT ![i] = Digest(algorithm, x[i])], i + 1)

\* the closure hash_values of public_key
hash_values(algorithm, x) ==
    hash_values_loop(algorithm, x,
        [i \in 1..(algorithm.output_len * BitsPerByte) |->
            [j \in 1..algorithm.output_len |-> 0]], 1)

\* PrivateKey::public_key
public_key(self) ==
    [zero_values |-> hash_values(self.algorithm, self.zero_values),
     one_values  |-> hash_values(self.algorithm, self.one_values),
     algorithm   |-> self.algorithm]

\* signature_of with the bits of a digest byte taken from the high end
signature_of_high_bit_first(self, data_hash) ==
    [o \in 1..(Len(data_hash) * BitsPerByte) |->
        IF BitSet(data_hash[((o - 1) \div BitsPerByte) + 1],
                  (BitsPerByte - 1) - ((o - 1) % BitsPerByte))
        THEN self.one_values[o]
        ELSE self.zero_values[o]]

\* the signature sign builds: for offset = i*8 + j, the one-preimage when bit
\* j of digest byte i is set, the zero-preimage otherwise
signature_of(self, data_hash) ==
    [o \in 1..(Len(data_hash) * BitsPerByte) |->
        IF BitSet(data_hash[((o - 1) \div BitsPerByte) + 1], (o - 1) % BitsPerByte)
        THEN self.one_values[o]
        ELSE self.zero_values[o]]

\* sign without the check of used
sign_unchecked(self, data) ==
    [key    |-> [self EXCEPT !.used = TRUE],
     result |-> [tag |-> "Ok",
                 value |-> signature_of(self, Digest(self.algorithm, data))]]

\* PrivateKey::sign: the key after the call and the value returned
sign(self, data) ==
    IF self.used
    THEN [key    |-> self,
          result |-> [tag |-> "Err", value |-> "Attempting to sign more than once."]]
    ELSE [key    |-> [self EXCEPT !.used = TRUE],
          result |-> [tag |-> "Ok",
                      value |-> signature_of(self, Digest(self.algorithm, data))]]

\* the closure zeroize_vector of drop
zeroize_vector(vector) ==
    [i \in DOMAIN vector |-> [j \in DOMAIN vector[i] |-> 0]]

\* drop that erases zero_values only
drop_zero_values_only(self) ==
    [self EXCEPT !.zero_values = zeroize_vector(self.zero_values)]

\* Drop for PrivateKey: the fields at the end of drop
drop(self) ==
    [self EXCEPT !.zero_values = zeroize_vector(self.zero_values),
                 !.one_values  = zeroize_vector(self.one_values)]

\* PartialEq for PrivateKey
private_eq(self, other) ==
    IF Len(self.one_values) # Len(other.one_values) THEN FALSE
    ELSE IF Len(self.zero_values) # Len(other.zero_values) THEN FALSE
    ELSE \A i \in 1..Len(self.zero_values) :
            ~(self.zero_values[i] # other.zero_values[i]
              \/ self.one_values[i] # other.one_values[i])

(* ----------------------------- PublicKey ------------------------------ *)

\* PartialEq for PublicKey: both arrays and the address of the algorithm static
public_eq(self, other) ==
    /\ self.zero_values = other.zero_values
    /\ self.one_values = other.one_values
    /\ self.algorithm.name = other.algorithm.name

RECURSIVE Concat(_, _)
\* the fold of to_bytes over values[i..]
Concat(values, i) ==
    IF i > Len(values) THEN <<>> ELSE values[i] \o Concat(values, i + 1)

\* to_bytes with one_values written first
to_bytes_one_values_first(self) == Concat(self.one_values \o self.zero_values, 1)

\* PublicKey::to_bytes
to_bytes(self) == Concat(self.zero_values \o self.one_values, 1)

\* one repartition loop of from_vec over merged: the heads are the indexes
\* divisible by hash_output_size; merged[i + j] panics when out of range
Repartition(merged, hash_output_size) ==
    LET heads == (Len(merged) + hash_output_size - 1) \div hash_output_size
    IN  IF Len(merged) % hash_output_size # 0
        THEN [tag |-> "panic"]
        ELSE [tag |-> "ok",
              values |-> [n \in 1..heads |->
                            SubSeq(merged, (n - 1) * hash_output_size + 1,
                                   n * hash_output_size)]]

\* PublicKey::from_vec
from_vec(vec, algorithm) ==
    LET size              == Len(vec)
        zero_values_merged == SubSeq(vec, 1, size \div 2)
        one_values_merged  == SubSeq(vec, (size \div 2) + 1, size)
        zero == Repartition(zero_values_merged, algorithm.output_len)
        one  == Repartition(one_values_merged, algorithm.output_len)
    IN  IF zero.tag = "panic" \/ one.tag = "panic"
        THEN [tag |-> "panic"]
        ELSE [tag |-> "Some",
              key |-> [zero_values |-> zero.values,
                       one_values  |-> one.values,
                       algorithm   |-> algorithm]]

RECURSIVE verify_from_either(_, _, _, _)
\* verify_from accepting a preimage of either digest of the bit position
verify_from_either(self, signature, data_hash, offset) ==
    IF offset = Len(data_hash) * BitsPerByte THEN "true"
    ELSE IF offset >= Len(signature) THEN "panic"
    ELSE LET hashed_value == Digest(self.algorithm, signature[offset + 1])
         IN  IF offset >= Len(self.one_values) \/ offset >= Len(self.zero_values)
             THEN "panic"
             ELSE IF hashed_value # self.one_values[offset + 1]
                     /\ hashed_value # self.zero_values[offset + 1]
             THEN "false"
             ELSE verify_from_either(self, signature, data_hash, offset + 1)

RECURSIVE verify_from(_, _, _, _)
\* the loops of verify_signature from bit offset on (offset = i*8 + j)
verify_from(self, signature, data_hash, offset) ==
    IF offset = Len(data_hash) * BitsPerByte THEN "true"
    ELSE IF offset >= Len(signature) THEN "panic"
    ELSE LET byte   == data_hash[(offset \div BitsPerByte) + 1]
             values == IF BitSet(byte, offset % BitsPerByte)
                       THEN self.one_values ELSE self.zero_values
             hashed_value == Digest(self.algorithm, signature[offset + 1])
         IN  IF offset >= Len(values) THEN "panic"
             ELSE IF hashed_value # values[offset + 1] THEN "false"
             ELSE verify_from(self, signature, data_hash, offset + 1)

\* PublicKey::verify_signature: "true", "false" or "panic"
verify_signature(self, signature, data) ==
    verify_from(self, signature, Digest(self.algorithm, data), 0)

(* ------------------------------- state -------------------------------- *)

\* the PrivateKey instances followed: the generated key and one clone of it
Instances == {"key", "clone"}

\* what a caller can do to a signature or an encoding before passing it on
Tampers == {"none", "pop", "extend"}

VARIABLES
    priv,   \* per instance: not yet created, live (with its fields), or dropped
    signs,  \* per instance: the number of sign calls that returned Ok
    pub,    \* the PublicKey last returned by public_key
    sig,    \* the signature last returned by sign, with what was signed
    last    \* the last call: its arguments and what it returned

vars == <<priv, signs, pub, sig, last>>

Live(k) == priv[k].state = "live"

\* Vec::pop / Vec::extend(extra) as in the wrong-size tests; the extra element
\* is a copy of the last one
Tamper(v, tamper) ==
    CASE tamper = "none"   -> v
      [] tamper = "pop"    -> SubSeq(v, 1, Len(v) - 1)
      [] tamper = "extend" -> Append(v, v[Len(v)])

Init ==
    /\ priv = [k \in Instances |-> [state |-> "none"]]
    /\ signs = [k \in Instances |-> 0]
    /\ pub = [tag |-> "None"]
    /\ sig = [tag |-> "None"]
    /\ last = [op |-> "init"]

(* ------------------------------ actions ------------------------------- *)

\* let key = PrivateKey::new(algorithm), with OsRng outcome seed
CallNew(algorithm, seed) ==
    /\ priv["key"].state = "none"
    /\ LET key == new(algorithm, seed)
       IN  /\ priv' = [priv EXCEPT !["key"] = [state |-> "live", key |-> key]]
           /\ last' = [op |-> "new", algorithm |-> algorithm, result |-> key]
    /\ UNCHANGED <<signs, pub, sig>>

\* let clone = key.clone()  (derive(Clone): every field is copied)
CallClone ==
    /\ Live("key")
    /\ priv["clone"].state = "none"
    /\ priv' = [priv EXCEPT !["clone"] = priv["key"]]
    /\ last' = [op |-> "clone", result |-> priv["key"].key]
    /\ UNCHANGED <<signs, pub, sig>>

\* k.public_key()
CallPublicKey(k) ==
    /\ Live(k)
    /\ LET result == public_key(priv[k].key)
       IN  /\ pub' = [tag |-> "Some", key |-> result, from_used |-> priv[k].key.used]
           /\ last' = [op |-> "public_key", instance |-> k, before |-> priv[k].key,
                       after |-> priv[k].key, result |-> result]
    /\ UNCHANGED <<priv, signs, sig>>

\* k.sign(data)
CallSign(k, data) ==
    /\ Live(k)
    /\ LET r == sign(priv[k].key, data)
       IN  /\ priv' = [priv EXCEPT ![k].key = r.key]
           /\ signs' = IF r.result.tag = "Ok"
                       THEN [signs EXCEPT ![k] = @ + 1] ELSE signs
           /\ sig' = IF r.result.tag = "Ok"
                     THEN [tag |-> "Some", value |-> r.result.value,
                           data |-> data, signer |-> priv[k].key]
                     ELSE sig
           /\ last' = [op |-> "sign", instance |-> k, before |-> priv[k].key,
                       signed_before |-> signs[k], after |-> r.key,
                       data |-> data, result |-> r.result]
    /\ UNCHANGED pub

\* pub.verify_signature(&signature, data), signature being the stored one or,
\* for the message it signs, the stored one with its last preimage removed or
\* with one preimage appended
CallVerify(tamper, data) ==
    /\ pub.tag = "Some"
    /\ sig.tag = "Some"
    /\ tamper = "none" \/ data = sig.data
    /\ LET signature == Tamper(sig.value, tamper)
       IN  last' = [op |-> "verify", self |-> pub.key, from_used |-> pub.from_used,
                    tamper |-> tamper, signature |-> signature,
                    data |-> data, signer |-> sig.signer, signed |-> sig.data,
                    result |-> verify_signature(pub.key, signature, data)]
    /\ UNCHANGED <<priv, signs, pub, sig>>

\* pub.to_bytes()
CallToBytes ==
    /\ pub.tag = "Some"
    /\ last' = [op |-> "to_bytes", self |-> pub.key, result |-> to_bytes(pub.key)]
    /\ UNCHANGED <<priv, signs, pub, sig>>

\* PublicKey::from_vec(vec, algorithm), vec being pub.to_bytes(), possibly
\* with its last byte removed or one byte appended
CallFromVec(tamper, algorithm) ==
    /\ pub.tag = "Some"
    /\ LET vec == Tamper(to_bytes(pub.key), tamper)
       IN  last' = [op |-> "from_vec", source |-> pub.key, tamper |-> tamper,
                    vec |-> vec, algorithm |-> algorithm,
                    result |-> from_vec(vec, algorithm)]
    /\ UNCHANGED <<priv, signs, pub, sig>>

\* k goes out of scope: Drop::drop runs, then the memory is released
CallDrop(k) ==
    /\ Live(k)
    /\ LET after == drop(priv[k].key)
       IN  /\ priv' = [priv EXCEPT ![k] = [state |-> "dropped", key |-> after]]
           /\ last' = [op |-> "drop", instance |-> k, before |-> priv[k].key,
                       after |-> after]
    /\ UNCHANGED <<signs, pub, sig>>

\* a == b for the two instances
CallEq ==
    /\ Live("key")
    /\ Live("clone")
    /\ last' = [op |-> "eq", self |-> priv["key"].key, other |-> priv["clone"].key,
                result |-> private_eq(priv["key"].key, priv["clone"].key)]
    /\ UNCHANGED <<priv, signs, pub, sig>>

\* test_private_key_equality: a copy of k with one_values.push(vec![0]), with
\* one_values.pop(), or with algorithm replaced, compared with k
Modified(key, modification, algorithm) ==
    CASE modification = "push" ->
            [key EXCEPT !.one_values = Append(@, <<0>>)]
      [] modification = "pop" ->
            [key EXCEPT !.one_values = SubSeq(@, 1, Len(@) - 1)]
      [] modification = "algorithm" ->
            [key EXCEPT !.algorithm = algorithm]

CallEqModified(k, modification, algorithm) ==
    /\ Live(k)
    /\ algorithm # priv[k].key.algorithm
    /\ LET self == Modified(priv[k].key, modification, algorithm)
       IN  last' = [op |-> "eq", self |-> self, other |-> priv[k].key,
                    result |-> private_eq(self, priv[k].key)]
    /\ UNCHANGED <<priv, signs, pub, sig>>

Next ==
    \/ \E algorithm \in Algorithms, seed \in 0..MaxSeed : CallNew(algorithm, seed)
    \/ CallClone
    \/ \E k \in Instances : CallPublicKey(k)
    \/ \E k \in Instances, data \in Messages : CallSign(k, data)
    \/ \E tamper \in Tampers, data \in Messages : CallVerify(tamper, data)
    \/ CallToBytes
    \/ \E tamper \in Tampers, algorithm \in Algorithms : CallFromVec(tamper, algorithm)
    \/ \E k \in Instances : CallDrop(k)
    \/ CallEq
    \/ \E k \in Instances, modification \in {"push", "pop", "algorithm"},
          algorithm \in Algorithms : CallEqModified(k, modification, algorithm)

Spec == Init /\ [][Next]_vars

(* ------------------------------ properties ---------------------------- *)

\* 8 * output_len: the number of bit positions of a digest
Bits(algorithm) == BitsPerByte * algorithm.output_len

AllZero(values) == \A i \in DOMAIN values : \A j \in DOMAIN values[i] : values[i][j] = 0

\* values has one entry of output_len bytes per bit position
WellSized(values, algorithm) ==
    /\ Len(values) = Bits(algorithm)
    /\ \A i \in DOMAIN values : Len(values[i]) = algorithm.output_len

\* bit position o (from 1) of a digest
DigestBit(data_hash, o) ==
    BitSet(data_hash[((o - 1) \div BitsPerByte) + 1], (o - 1) % BitsPerByte)

\* the last call verified, with the public key of the signer, the signature
\* exactly as sign returned it
VerifiedIntact ==
    /\ last.op = "verify"
    /\ last.tamper = "none"
    /\ last.self = public_key(last.signer)

\* C1: a sign call on a key that has not been used returns a signature, and
\* the public key of that key, derived before or after the call, verifies the
\* returned signature against the signed message.
SignVerifyAgreement ==
    /\ (last.op = "sign" /\ ~last.before.used) => last.result.tag = "Ok"
    /\ (VerifiedIntact /\ last.data = last.signed) => last.result = "true"

\* C1 witness: a public key derived before the key signed verifies the
\* signature of a key whose zero and one preimages differ
SignVerifyAgreementWitness ==
    /\ VerifiedIntact
    /\ last.data = last.signed
    /\ ~last.from_used
    /\ last.signer.zero_values # last.signer.one_values
    /\ last.result = "true"

\* C2: a sign call on an instance that has already returned a signature returns
\* the error, whatever the message, and leaves every field of the key as it
\* was; no instance returns more than one signature.
DoubleSign ==
    /\ (last.op = "sign" /\ last.signed_before >= 1) =>
          /\ last.result.tag = "Err"
          /\ last.after = last.before
          /\ priv[last.instance].key = last.before
    /\ \A k \in Instances : signs[k] <= 1

\* C2 witness: a second sign call, for another message than the one signed
\* first, was refused
DoubleSignWitness ==
    /\ last.op = "sign"
    /\ last.signed_before = 1
    /\ last.result.tag = "Err"
    /\ sig.tag = "Some" /\ sig.signer = [last.before EXCEPT !.used = FALSE]
    /\ sig.data # last.data

\* C3: with the signer's public key and the signed message, verify_signature
\* returns false (and does not panic) for every signature whose length is not
\* 8 * output_len.
WrongLengthSignature ==
    (/\ last.op = "verify"
     /\ last.data = last.signed
     /\ Len(last.signature) # Bits(last.self.algorithm)
     /\ last.self = public_key(last.signer))
    => last.result = "false"

\* C4: from_vec returns None, without panicking, for every byte sequence whose
\* length is not 2 * (8 * output_len) * output_len.
MalformedDecode ==
    (/\ last.op = "from_vec"
     /\ Len(last.vec) # 2 * Bits(last.algorithm) * last.algorithm.output_len)
    => last.result.tag = "None"

\* C5: decoding the encoding of a derived public key with its own algorithm
\* returns a key equal to it; the encoding is zero_values then one_values, each
\* digest as its output_len bytes in index order, 2 * B * L bytes in all.
SerializationRoundTrip ==
    (/\ last.op = "from_vec"
     /\ last.tamper = "none"
     /\ last.algorithm = last.source.algorithm)
    => LET L == last.algorithm.output_len
           B == Bits(last.algorithm)
       IN  /\ last.result.tag = "Some"
           /\ public_eq(last.result.key, last.source)
           /\ last.result.key = last.source
           /\ Len(last.vec) = 2 * B * L
           /\ \A i \in 1..B : \A j \in 1..L :
                 /\ last.vec[(i - 1) * L + j] = last.source.zero_values[i][j]
                 /\ last.vec[B * L + (i - 1) * L + j] = last.source.one_values[i][j]

\* C5 witness: the round trip of a key whose two arrays differ
SerializationRoundTripWitness ==
    /\ last.op = "from_vec"
    /\ last.tamper = "none"
    /\ last.algorithm = last.source.algorithm
    /\ last.source.zero_values # last.source.one_values
    /\ last.result.tag = "Some"
    /\ last.result.key = last.source

\* the signed message and the verified one differ in a digest bit at whose
\* position the signer's zero and one preimages have different digests
DistinguishingBit ==
    LET algorithm == last.signer.algorithm
        signed_hash == Digest(algorithm, last.signed)
        data_hash == Digest(algorithm, last.data)
    IN  \E o \in 1..Bits(algorithm) :
           /\ DigestBit(signed_hash, o) # DigestBit(data_hash, o)
           /\ Digest(algorithm, last.signer.zero_values[o])
                 # Digest(algorithm, last.signer.one_values[o])

\* C6: the signature of m, verified with the signer's public key against
\* another message whose digest differs from that of m in a bit position where
\* the zero and one preimages have different digests, verifies as false.
SignVerifyDisagreement ==
    (VerifiedIntact /\ last.data # last.signed /\ DistinguishingBit)
    => last.result = "false"

\* C6 witness: such a verification happened
SignVerifyDisagreementWitness ==
    /\ VerifiedIntact
    /\ last.data # last.signed
    /\ DistinguishingBit
    /\ last.result = "false"

\* C7: two private keys compare equal only if their arrays are elementwise
\* equal and their algorithm is the same.
PrivateKeyEqualityAlgorithm ==
    (last.op = "eq" /\ last.result)
    => /\ last.self.zero_values = last.other.zero_values
       /\ last.self.one_values = last.other.one_values
       /\ last.self.algorithm = last.other.algorithm

\* C8: a dropped key has every byte of every preimage of both arrays zero,
\* whatever happened to it before; the arrays keep their B entries of L bytes
\* throughout, and sign leaves them as they were.
Zeroization ==
    /\ \A k \in Instances :
          priv[k].state # "none" =>
             /\ WellSized(priv[k].key.zero_values, priv[k].key.algorithm)
             /\ WellSized(priv[k].key.one_values, priv[k].key.algorithm)
             /\ priv[k].state = "dropped" =>
                   /\ AllZero(priv[k].key.zero_values)
                   /\ AllZero(priv[k].key.one_values)
    /\ last.op = "sign" =>
          /\ last.after.zero_values = last.before.zero_values
          /\ last.after.one_values = last.before.one_values
    /\ last.op = "drop" =>
          /\ Len(last.after.zero_values) = Len(last.before.zero_values)
          /\ Len(last.after.one_values) = Len(last.before.one_values)

\* C8 witness: a key that had signed, with nonzero bytes in both arrays, was
\* dropped
ZeroizationWitness ==
    /\ last.op = "drop"
    /\ last.before.used
    /\ signs[last.instance] = 1
    /\ ~AllZero(last.before.zero_values)
    /\ ~AllZero(last.before.one_values)
    /\ priv[last.instance].state = "dropped"
    /\ AllZero(priv[last.instance].key.one_values)

\* C9: public_key returns B digests of L bytes in each array, entry i being the
\* digest of preimage i of the same array, and leaves the private key as it was.
PublicKeyDerivation ==
    last.op = "public_key" =>
       LET algorithm == last.before.algorithm
       IN  /\ last.result.algorithm = algorithm
           /\ WellSized(last.result.zero_values, algorithm)
           /\ WellSized(last.result.one_values, algorithm)
           /\ \A i \in 1..Bits(algorithm) :
                 /\ last.result.zero_values[i] = Digest(algorithm, last.before.zero_values[i])
                 /\ last.result.one_values[i] = Digest(algorithm, last.before.one_values[i])
           /\ last.after = last.before
           /\ priv[last.instance] = [state |-> "live", key |-> last.before]

\* C9 witness: the public key of a key with nonzero preimages was derived
PublicKeyDerivationWitness ==
    /\ last.op = "public_key"
    /\ ~AllZero(last.before.zero_values)
    /\ last.before.algorithm = DIGEST_512
    /\ Len(last.result.one_values) = Bits(DIGEST_512)

\* C10: the preimages of the generated key, held by the key and by its clone,
\* are used by at most one successful sign call in all.
OneTimeKeyMaterial ==
    signs["key"] + signs["clone"] <= 1

============================================================================
